---- MODULE Spec2Model ----
(***************************************************************************)
(* AWS profile / region resolution and switching, as implemented in this   *)
(* repository:                                                             *)
(*   menu   - aws_profile_manager.py  manage_aws_profiles()                *)
(*   tray   - aws_tray_manager.py     get_aws_profiles(), switch_profile() *)
(*   auto   - dev_assistant.py        manage_aws_resources(), choice "7"   *)
(*   wizard - devwizard/devwizard.py  aws_helper(), choice "7"             *)
(*                                                                         *)
(* Spec        one invocation per step, on files nobody else touches       *)
(* SpecSwitch  the switch of the four sites                                *)
(* SpecCorrupt the tools started on a file configparser cannot parse       *)
(* SpecTray    the running tray icon, its poll thread and another writer   *)
(* SpecMenu    a run of the menu CLI statement by statement, with another  *)
(*             writer                                                      *)
(* SpecCli     runs of the menu CLI only                                   *)
(* SpecFav     the tray started with favourites, next to the menu CLI      *)
(* SpecTrayLive SpecTray with the poll thread scheduled fairly             *)
(* SpecRace    the tray's handlers and poll thread on stores nobody edits  *)
(* SpecHelper  the tray's switches with the helper processes they start    *)
(*                                                                         *)
(* The credentials store is the sequence of sections of the credentials    *)
(* file in file order, the config store maps the section names of the      *)
(* config file to their region option, the process environment is the      *)
(* mapping os.environ restricted to the three AWS variables, and bat is    *)
(* the list of setx lines of the generated set_aws_profile.bat.            *)
(* credCorrupt and cfgCorrupt tell that the file is there but configparser *)
(* cannot parse it.  tray holds the nonlocal presentation variables of     *)
(* create_tray_icon(), poll the position and locals of its update_thread() *)
(* and add the position and locals of a run of the menu CLI's "a" branch   *)
(* that is followed write by write.  helpers holds the user environment    *)
(* persisted by setx and the helper processes still running.               *)
(***************************************************************************)
EXTENDS Integers, Sequences, FiniteSets, TLC

VARIABLES credExists, credentials, cfgExists, config, env, bat, last,
          credCorrupt, cfgCorrupt, tray, poll, add, helpers

vars == <<credExists, credentials, cfgExists, config, env, bat, last,
          credCorrupt, cfgCorrupt, tray, poll, add, helpers>>

\* the two stores, the environment and the helper
resolverState ==
    <<credExists, credentials, credCorrupt, cfgExists, config, cfgCorrupt, env, bat>>

\* what belongs to the tray process and to a stepwise add only
processState == <<tray, poll, add, helpers>>

(***************************************************************************)
(* Bounds of the model.                                                    *)
(***************************************************************************)
\* longest credentials file (number of sections) the model explores
MaxProfiles == 2
\* largest number typed at a "select profile number" prompt, beyond the list
MaxOvershoot == 1
\* longest favorites list of config.json the model explores
MaxFavorites == 2
MaxHelpers == 2

(***************************************************************************)
(* Values.                                                                 *)
(***************************************************************************)
Names == {"default", "dev", "prod"}
\* aws_config.get("default_region", "us-east-1")
default_region == "us-east-1"
Regions == {default_region, "eu-west-1"}
\* a section without a region option
NoKey == "<no region option>"
EnvVars == {"AWS_PROFILE", "AWS_REGION", "AWS_DEFAULT_REGION"}
AccessKeys == {"AKIAEXAMPLE"}
SecretKeys == {"wJalrEXAMPLEKEY"}

\* f"profile {name}"
ProfileSection(name) == "profile " \o name

Range(s) == {s[i] : i \in DOMAIN s}

(***************************************************************************)
(* configparser, as far as the three call sites use it.                    *)
(***************************************************************************)
\* ConfigParser.sections(): the section names in file order.  A lower-case
\* [default] section is an ordinary section (only [DEFAULT] is special).
Sections(cp) == [i \in 1..Len(cp) |-> cp[i].name]

\* ConfigParser.has_section() on the credentials parser
HasSection(cp, name) == \E i \in 1..Len(cp) : cp[i].name = name

\* ConfigParser.has_section() on the config parser
CfgHasSection(cp, section) == section \in DOMAIN cp

\* ConfigParser.has_option(section, "region")
CfgHasRegion(cp, section) == CfgHasSection(cp, section) /\ cp[section] # NoKey

\* get() without its fallback: a missing option is not replaced
CfgGetRegion_NoFallback(cp, section, fb) == cp[section]

\* ConfigParser.get(section, "region", fallback=fb) on an existing section
CfgGetRegion(cp, section, fb) == IF cp[section] # NoKey THEN cp[section] ELSE fb

\* config_parser = ConfigParser(); if os.path.exists(config_path): read
EmptyParser == [s \in {} |-> NoKey]
ReadConfig(exists, cfg) == IF exists THEN cfg ELSE EmptyParser

\* credentials.read(credentials_path) raises (MissingSectionHeaderError,
\* ParsingError, DuplicateSectionError) on a file it cannot parse
CredsUnparsable == credExists /\ credCorrupt

\* config_parser.read(config_path), reached only if the file exists
CfgUnparsable == cfgExists /\ cfgCorrupt

\* the secret key written where the region belongs
CfgSetRegion_WithKey(cp, section, region) ==
    [s \in DOMAIN cp \cup {section} |->
        IF s = section THEN "wJalrEXAMPLEKEY" ELSE cp[s]]

\* add_section (when missing) followed by set(section, "region", region)
CfgSetRegion(cp, section, region) ==
    [s \in DOMAIN cp \cup {section} |-> IF s = section THEN region ELSE cp[s]]

\* os.environ[k] = v
SetEnv(e, k, v) == [x \in DOMAIN e \cup {k} |-> IF x = k THEN v ELSE e[x]]

(***************************************************************************)
(* The resolver, as each call site computes it.                            *)
(***************************************************************************)
\* profiles = list(credentials.sections()); hoist of "default"
ListProfiles(cp) ==
    LET profiles == Sections(cp)
    IN  IF "default" \notin Range(profiles) /\ HasSection(cp, "default")
        THEN <<"default">> \o profiles
        ELSE profiles

\* current_profile = "default" unless AWS_PROFILE is in os.environ
CurrentProfile(e) ==
    IF "AWS_PROFILE" \in DOMAIN e THEN e["AWS_PROFILE"] ELSE "default"

\* current_region: AWS_REGION, AWS_DEFAULT_REGION, [profile <current>], default
CurrentRegion(e, cp, current_profile) ==
    IF "AWS_REGION" \in DOMAIN e THEN e["AWS_REGION"]
    ELSE IF "AWS_DEFAULT_REGION" \in DOMAIN e THEN e["AWS_DEFAULT_REGION"]
    ELSE IF CfgHasSection(cp, ProfileSection(current_profile))
            /\ CfgHasRegion(cp, ProfileSection(current_profile))
         THEN cp[ProfileSection(current_profile)]
    ELSE default_region

\* section_name = "default" if profile == "default" else f"profile {profile}"
SectionName(profile) ==
    IF profile = "default" THEN "default" ELSE ProfileSection(profile)

\* "Get region for this profile" of the switch branches
RegionFor(cp, profile) ==
    IF CfgHasSection(cp, SectionName(profile))
    THEN CfgGetRegion(cp, SectionName(profile), default_region)
    ELSE default_region

\* the helper opened for appending instead of being rewritten
WriteBatch_Append(profile, region) ==
    bat \o << [var |-> "AWS_PROFILE", val |-> profile],
              [var |-> "AWS_DEFAULT_REGION", val |-> region] >>

\* the setx lines of set_aws_profile.bat written by the menu CLI and the tray
WriteBatch(profile, region) ==
    << [var |-> "AWS_PROFILE", val |-> profile],
       [var |-> "AWS_DEFAULT_REGION", val |-> region] >>

\* the setx line of set_aws_profile.bat written by the automation CLI
WriteBatchAuto(profile) == << [var |-> "AWS_PROFILE", val |-> profile] >>

NoSelection == <<>>

\* what an invocation reported: the call site, the operation, its profile
\* and region arguments, the outcome, the listing and active selection it
\* computed and the selection a switch returned; again tells that the
\* invocation before it was a switch at the same site to the same profile
Report(site, op, arg, region, status, listed, profiles, resolved, active, selection) ==
    [site |-> site, op |-> op, arg |-> arg, region |-> region, status |-> status,
     listed |-> listed, profiles |-> profiles,
     resolved |-> resolved, active |-> active, selection |-> selection,
     again |-> (op = "switchTo" /\ last.op = "switchTo"
                /\ last.site = site /\ last.arg = arg)]

\* no tray icon has been created, no stepwise add is under way
NoTray ==
    [current_profile |-> "", current_region |-> "", icon |-> "", menu |-> <<>>,
     favorites |-> <<>>]
NoPoll == [pc |-> "off", new_current |-> "", new_region |-> ""]
NoAdd ==
    [pc |-> "idle", credentials |-> <<>>, config_parser |-> EmptyParser,
     new_profile |-> "", region |-> "", lost |-> FALSE, seen |-> <<>>]
\* no helper process started, nothing persisted by setx yet
NoHelpers == [persisted |-> [var \in {} |-> ""], running |-> <<>>]

(***************************************************************************)
(* aws_profile_manager.py: one run of manage_aws_profiles().                *)
(***************************************************************************)
\* "Current profile: ..." computed by the menu CLI (lines 62-74)
MenuActive(e, cp) ==
    << CurrentProfile(e), CurrentRegion(e, cp, CurrentProfile(e)) >>

\* the "a" branch without its has_section() check
AddProfileStatus_NoDuplicateCheck(cp, new_profile) ==
    IF new_profile = "" THEN "EmptyName" ELSE "ok"

\* outcome of the checks on the typed name of the "a" branch (lines 116-123)
AddProfileStatus(cp, new_profile) ==
    IF new_profile = "" THEN "EmptyName"
    ELSE IF HasSection(cp, new_profile) THEN "DuplicateProfile"
    ELSE "ok"

\* input(...).strip() or default_region
RegionInput(typed) == IF typed = "" THEN default_region ELSE typed

\* credentials.add_section(new_profile) and the two set() calls
AddSection(cp, new_profile, access_key, secret_key) ==
    Append(cp, [name |-> new_profile,
                aws_access_key_id |-> access_key,
                aws_secret_access_key |-> secret_key])

\* a bootstrap that creates the file without a section
BootstrapFile_Empty == <<>>

\* the file written when the user accepts the bootstrap offer
BootstrapFile ==
    << [name |-> "default",
        aws_access_key_id |-> "YOUR_ACCESS_KEY",
        aws_secret_access_key |-> "YOUR_SECRET_KEY"] >>

\* credentials file missing: offer to create it, then return
MenuBootstrap(create_new) ==
    /\ ~credExists
    /\ IF create_new = "y"
       THEN /\ credExists' = TRUE
            /\ credentials' = BootstrapFile
            /\ credCorrupt' = FALSE
       ELSE UNCHANGED <<credExists, credentials, credCorrupt>>
    /\ last' = Report("menu", "bootstrap", "", "", "StoreUnavailable",
                      FALSE, <<>>, FALSE, NoSelection, NoSelection)
    /\ UNCHANGED <<cfgExists, config, cfgCorrupt, env, bat, processState>>

\* "q", an option that is listed but not implemented, or any other text
MenuOption(choice) ==
    /\ credExists /\ ~CredsUnparsable /\ ~CfgUnparsable
    /\ last' = Report("menu", "option", "", "",
                      IF choice = "q" THEN "ok" ELSE "InvalidOption",
                      TRUE, ListProfiles(credentials),
                      TRUE, MenuActive(env, ReadConfig(cfgExists, config)),
                      NoSelection)
    /\ UNCHANGED <<resolverState, processState>>

\* choice "a": add a new profile, optionally switching to it
MenuAddProfile(new_profile, access_key, secret_key, typed_region, switch) ==
    LET config_parser == ReadConfig(cfgExists, config)
        status == AddProfileStatus(credentials, new_profile)
        region == RegionInput(typed_region)
        report(sel) == Report("menu", "addProfile", new_profile, region, status,
                              TRUE, ListProfiles(credentials),
                              TRUE, MenuActive(env, config_parser), sel)
    IN  /\ credExists /\ ~CredsUnparsable /\ ~CfgUnparsable
        /\ IF status = "ok"
           THEN /\ Len(credentials) < MaxProfiles
                /\ credentials' =
                       AddSection(credentials, new_profile, access_key, secret_key)
                /\ cfgExists' = TRUE
                /\ config' = CfgSetRegion(config_parser,
                                          ProfileSection(new_profile), region)
                /\ IF switch = "y"
                   THEN /\ env' = SetEnv(SetEnv(env, "AWS_PROFILE", new_profile),
                                         "AWS_DEFAULT_REGION", region)
                        /\ bat' = WriteBatch(new_profile, region)
                        /\ last' = report(<<new_profile, region>>)
                   ELSE /\ UNCHANGED <<env, bat>>
                        /\ last' = report(NoSelection)
           ELSE /\ last' = report(NoSelection)
                /\ UNCHANGED <<credentials, cfgExists, config, env, bat>>
        /\ UNCHANGED <<credExists, credCorrupt, cfgCorrupt, processState>>

\* the typed number used as the index itself
MenuSwitch_ZeroBased(number) ==
    LET config_parser == ReadConfig(cfgExists, config)
        profiles == ListProfiles(credentials)
        valid == 0 <= number /\ number < Len(profiles)
        selected_profile == profiles[number + 1]
        selected_region == RegionFor(config_parser, selected_profile)
    IN  /\ credExists /\ ~CredsUnparsable /\ ~CfgUnparsable
        /\ IF valid
           THEN /\ env' = SetEnv(SetEnv(env, "AWS_PROFILE", selected_profile),
                                 "AWS_DEFAULT_REGION", selected_region)
                /\ bat' = WriteBatch(selected_profile, selected_region)
                /\ last' = Report("menu", "switchTo", selected_profile, "", "ok",
                                  TRUE, profiles,
                                  TRUE, MenuActive(env, config_parser),
                                  <<selected_profile, selected_region>>)
           ELSE /\ last' = Report("menu", "select", "", "", "InvalidNumber",
                                  TRUE, profiles,
                                  TRUE, MenuActive(env, config_parser),
                                  NoSelection)
                /\ UNCHANGED <<env, bat>>
        /\ UNCHANGED <<credExists, credentials, credCorrupt,
                       cfgExists, config, cfgCorrupt, processState>>

\* a numeric choice: switch to the profile listed under that number
MenuSwitch(number) ==
    LET config_parser == ReadConfig(cfgExists, config)
        profiles == ListProfiles(credentials)
        index == number - 1
        valid == 0 <= index /\ index < Len(profiles)
        selected_profile == profiles[index + 1]
        selected_region == RegionFor(config_parser, selected_profile)
    IN  /\ credExists /\ ~CredsUnparsable /\ ~CfgUnparsable
        /\ IF valid
           THEN /\ env' = SetEnv(SetEnv(env, "AWS_PROFILE", selected_profile),
                                 "AWS_DEFAULT_REGION", selected_region)
                /\ bat' = WriteBatch(selected_profile, selected_region)
                /\ last' = Report("menu", "switchTo", selected_profile, "", "ok",
                                  TRUE, profiles,
                                  TRUE, MenuActive(env, config_parser),
                                  <<selected_profile, selected_region>>)
           ELSE /\ last' = Report("menu", "select", "", "", "InvalidNumber",
                                  TRUE, profiles,
                                  TRUE, MenuActive(env, config_parser),
                                  NoSelection)
                /\ UNCHANGED <<env, bat>>
        /\ UNCHANGED <<credExists, credentials, credCorrupt,
                       cfgExists, config, cfgCorrupt, processState>>

\* the reads of lines 53-60 raise: nothing catches the exception, the
\* traceback ends the run of the menu CLI
MenuReadFails == credExists /\ (CredsUnparsable \/ CfgUnparsable)

MenuParseError ==
    /\ MenuReadFails
    /\ last' = Report("menu", "read", "", "", "Uncaught",
                      FALSE, <<>>, FALSE, NoSelection, NoSelection)
    /\ UNCHANGED <<resolverState, processState>>

(***************************************************************************)
(* aws_profile_manager.py: the same run followed statement by statement.   *)
(* add.credentials and add.config_parser are the two parsers as the run    *)
(* read them (lines 53-60), add.pc the prompt or write it is at and        *)
(* add.seen the listing the run before this one had shown.                 *)
(***************************************************************************)
\* the run is over: its parsers are gone, its listing is remembered
RunEnds == [NoAdd EXCEPT !.seen = ListProfiles(add.credentials)]

\* a run that shows the listing of the run before it
MenuRead_Cached ==
    LET config_parser == ReadConfig(cfgExists, config)
    IN  /\ add.pc = "idle"
        /\ credExists /\ ~MenuReadFails
        /\ add' = [NoAdd EXCEPT !.pc = "prompt", !.credentials = credentials,
                                !.config_parser = config_parser,
                                !.seen = add.seen]
        /\ last' = Report("menu", "list", "", "", "ok", TRUE,
                          IF add.seen # <<>> THEN add.seen
                                             ELSE ListProfiles(credentials),
                          TRUE, MenuActive(env, config_parser), NoSelection)
        /\ UNCHANGED <<resolverState, tray, poll, helpers>>

\* lines 53-99: both files are read, the listing and the options are shown
MenuRead ==
    LET config_parser == ReadConfig(cfgExists, config)
    IN  /\ add.pc = "idle"
        /\ credExists /\ ~MenuReadFails
        /\ add' = [NoAdd EXCEPT !.pc = "prompt", !.credentials = credentials,
                                !.config_parser = config_parser,
                                !.seen = add.seen]
        /\ last' = Report("menu", "list", "", "", "ok",
                          TRUE, ListProfiles(credentials),
                          TRUE, MenuActive(env, config_parser), NoSelection)
        /\ UNCHANGED <<resolverState, tray, poll, helpers>>

\* "q" or an option that is not implemented: the run ends
MenuChooseOption(choice) ==
    /\ add.pc = "prompt"
    /\ add' = RunEnds
    /\ last' = Report("menu", "option", "", "",
                      IF choice = "q" THEN "ok" ELSE "InvalidOption",
                      FALSE, <<>>, FALSE, NoSelection, NoSelection)
    /\ UNCHANGED <<resolverState, tray, poll, helpers>>

\* a number typed at the prompt: lines 171-202 work on the parsers the run
\* already holds
MenuChooseSwitch(number) ==
    LET profiles == ListProfiles(add.credentials)
        index == number - 1
        valid == 0 <= index /\ index < Len(profiles)
        selected_profile == profiles[index + 1]
        selected_region == RegionFor(add.config_parser, selected_profile)
    IN  /\ add.pc = "prompt"
        /\ add' = RunEnds
        /\ IF valid
           THEN /\ env' = SetEnv(SetEnv(env, "AWS_PROFILE", selected_profile),
                                 "AWS_DEFAULT_REGION", selected_region)
                /\ bat' = WriteBatch(selected_profile, selected_region)
                /\ last' = Report("menu", "switchTo", selected_profile, "", "ok",
                                  TRUE, profiles, FALSE, NoSelection,
                                  <<selected_profile, selected_region>>)
           ELSE /\ last' = Report("menu", "select", "", "", "InvalidNumber",
                                  TRUE, profiles, FALSE, NoSelection, NoSelection)
                /\ UNCHANGED <<env, bat>>
        /\ UNCHANGED <<credExists, credentials, credCorrupt,
                       cfgExists, config, cfgCorrupt, tray, poll, helpers>>

\* "a": the name is typed and checked (lines 116-123), then the keys and
\* the region are typed (125-127)
AddCheck(new_profile, typed_region) ==
    LET status == AddProfileStatus(add.credentials, new_profile)
    IN  /\ add.pc = "prompt"
        /\ Len(add.credentials) < MaxProfiles
        /\ add' = IF status = "ok"
                  THEN [add EXCEPT !.pc = "checked", !.new_profile = new_profile,
                                   !.region = RegionInput(typed_region)]
                  ELSE RunEnds
        /\ last' = Report("menu", "addProfile", new_profile, "",
                          IF status = "ok" THEN "Checked" ELSE status,
                          FALSE, <<>>, FALSE, NoSelection, NoSelection)
        /\ UNCHANGED <<resolverState, tray, poll, helpers>>

\* the new section appended to the file as it is on disk
WriteCredentials_Append(parser, onDisk) == Append(onDisk, parser[Len(parser)])

\* with open(credentials_path, 'w') as f: credentials.write(f)
WriteCredentials(parser, onDisk) == parser

\* both files written in one step
AddWriteCredentials_Both ==
    /\ add.pc = "checked"
    /\ credentials' = AddSection(add.credentials, add.new_profile,
                                 "AKIAEXAMPLE", "wJalrEXAMPLEKEY")
    /\ credExists' = TRUE
    /\ credCorrupt' = FALSE
    /\ config' = CfgSetRegion(add.config_parser,
                              ProfileSection(add.new_profile), add.region)
    /\ cfgExists' = TRUE
    /\ add' = [add EXCEPT !.pc = "credsWritten", !.lost = FALSE]
    /\ last' = Report("menu", "addProfile", add.new_profile, add.region,
                      "CredentialsWritten",
                      FALSE, <<>>, FALSE, NoSelection, NoSelection)
    /\ UNCHANGED <<cfgCorrupt, env, bat, tray, poll, helpers>>

\* lines 129-135: the section is added to the parser and the credentials
\* file is rewritten from it; add.lost tells that the file on disk was no
\* longer the one the run had read
AddWriteCredentials ==
    LET parser == AddSection(add.credentials, add.new_profile,
                             "AKIAEXAMPLE", "wJalrEXAMPLEKEY")
    IN  /\ add.pc = "checked"
        /\ credentials' = WriteCredentials(parser, credentials)
        /\ credExists' = TRUE
        /\ credCorrupt' = FALSE
        /\ add' = [add EXCEPT !.pc = "credsWritten",
                              !.lost = (credentials # add.credentials)]
        /\ last' = Report("menu", "addProfile", add.new_profile, add.region,
                          "CredentialsWritten",
                          FALSE, <<>>, FALSE, NoSelection, NoSelection)
        /\ UNCHANGED <<cfgExists, config, cfgCorrupt, env, bat, tray, poll, helpers>>

\* the run ends between the two writes (the process is killed, or the
\* write of the config file raises)
AddStop ==
    /\ add.pc = "credsWritten"
    /\ add' = RunEnds
    /\ last' = Report("menu", "addProfile", add.new_profile, add.region,
                      "Stopped", FALSE, <<>>, FALSE, NoSelection, NoSelection)
    /\ UNCHANGED <<resolverState, tray, poll, helpers>>

\* lines 137-146: the region is set in the parser and the config file is
\* rewritten from it
AddWriteConfig ==
    LET parser == CfgSetRegion(add.config_parser,
                               ProfileSection(add.new_profile), add.region)
    IN  /\ add.pc = "credsWritten"
        /\ config' = parser
        /\ cfgExists' = TRUE
        /\ cfgCorrupt' = FALSE
        /\ add' = [add EXCEPT !.pc = "added",
                              !.lost = (ReadConfig(cfgExists, config)
                                            # add.config_parser)]
        /\ last' = Report("menu", "addProfile", add.new_profile, add.region,
                          "ok", FALSE, <<>>, FALSE, NoSelection, NoSelection)
        /\ UNCHANGED <<credExists, credentials, credCorrupt, env, bat, tray, poll, helpers>>

\* lines 150-169: "Switch to profile ...? (y/n)"
AddSwitch(switch) ==
    /\ add.pc = "added"
    /\ add' = RunEnds
    /\ IF switch = "y"
       THEN /\ env' = SetEnv(SetEnv(env, "AWS_PROFILE", add.new_profile),
                             "AWS_DEFAULT_REGION", add.region)
            /\ bat' = WriteBatch(add.new_profile, add.region)
            /\ last' = Report("menu", "switchTo", add.new_profile, add.region,
                              "ok", FALSE, <<>>, FALSE, NoSelection,
                              <<add.new_profile, add.region>>)
       ELSE /\ UNCHANGED <<env, bat>>
            /\ last' = Report("menu", "option", "", "", "ok",
                              FALSE, <<>>, FALSE, NoSelection, NoSelection)
    /\ UNCHANGED <<credExists, credentials, credCorrupt,
                   cfgExists, config, cfgCorrupt, tray, poll, helpers>>

(***************************************************************************)
(* aws_tray_manager.py: get_aws_profiles(), switch_profile() and the tray   *)
(* handlers that call them.                                                *)
(***************************************************************************)
\* get_aws_profiles(): (profiles, (current_profile, current_region))
GetAwsProfiles(credsThere, creds, cfgThere, cfg, e) ==
    IF ~credsThere
    THEN [profiles |-> <<>>, active |-> <<"default", default_region>>]
    ELSE [profiles |-> ListProfiles(creds),
          active |-> << CurrentProfile(e),
                        CurrentRegion(e, ReadConfig(cfgThere, cfg),
                                      CurrentProfile(e)) >>]

\* get_aws_profiles() raises: the credentials file is there and one of the
\* two reads fails
GetAwsProfilesFails == credExists /\ (CredsUnparsable \/ CfgUnparsable)

\* get_aws_profiles() called and its result shown
GetAwsProfilesCall ==
    LET got == GetAwsProfiles(credExists, credentials, cfgExists, config, env)
    IN  /\ ~GetAwsProfilesFails
        /\ last' = Report("tray", "refresh", "", "", "ok",
                          TRUE, got.profiles, TRUE, got.active, NoSelection)
        /\ UNCHANGED resolverState

\* the exception of get_aws_profiles() leaves the caller
GetAwsProfilesRaises ==
    /\ GetAwsProfilesFails
    /\ last' = Report("tray", "refresh", "", "", "Uncaught",
                      FALSE, <<>>, FALSE, NoSelection, NoSelection)
    /\ UNCHANGED resolverState

\* a switch that sets AWS_REGION as well
SwitchProfileCall_SetsRegion(profile_name) ==
    LET selected_region == RegionFor(ReadConfig(cfgExists, config), profile_name)
        environ == SetEnv(SetEnv(SetEnv(env, "AWS_PROFILE", profile_name),
                                 "AWS_DEFAULT_REGION", selected_region),
                          "AWS_REGION", selected_region)
        got == GetAwsProfiles(credExists, credentials, cfgExists, config, environ)
    IN  /\ ~CfgUnparsable /\ ~GetAwsProfilesFails
        /\ env' = environ
        /\ bat' = WriteBatch(profile_name, selected_region)
        /\ last' = Report("tray", "switchTo", profile_name, "", "ok",
                          TRUE, got.profiles, TRUE, got.active,
                          <<profile_name, selected_region>>)
        /\ UNCHANGED <<credExists, credentials, credCorrupt,
                       cfgExists, config, cfgCorrupt>>

\* switch_profile(profile_name), then get_aws_profiles() as create_menu()
\* calls it for the "Current:" item
SwitchProfileCall(profile_name) ==
    LET config_parser == ReadConfig(cfgExists, config)
        selected_region == RegionFor(config_parser, profile_name)
        environ == SetEnv(SetEnv(env, "AWS_PROFILE", profile_name),
                          "AWS_DEFAULT_REGION", selected_region)
        got == GetAwsProfiles(credExists, credentials, cfgExists, config, environ)
    IN  /\ ~CfgUnparsable /\ ~GetAwsProfilesFails
        /\ env' = environ
        /\ bat' = WriteBatch(profile_name, selected_region)
        /\ last' = Report("tray", "switchTo", profile_name, "", "ok",
                          TRUE, got.profiles, TRUE, got.active,
                          <<profile_name, selected_region>>)
        /\ UNCHANGED <<credExists, credentials, credCorrupt,
                       cfgExists, config, cfgCorrupt>>

\* switch_profile() raises on an unparsable config file before it changes
\* anything; with only the credentials file unparsable it completes and
\* the get_aws_profiles() of create_menu() raises after it
SwitchProfileRaises(profile_name) ==
    LET selected_region == RegionFor(ReadConfig(cfgExists, config), profile_name)
    IN  IF CfgUnparsable
        THEN /\ last' = Report("tray", "switchTo", profile_name, "", "Uncaught",
                               FALSE, <<>>, FALSE, NoSelection, NoSelection)
             /\ UNCHANGED resolverState
        ELSE /\ GetAwsProfilesFails
             /\ env' = SetEnv(SetEnv(env, "AWS_PROFILE", profile_name),
                              "AWS_DEFAULT_REGION", selected_region)
             /\ bat' = WriteBatch(profile_name, selected_region)
             /\ last' = Report("tray", "switchTo", profile_name, "", "Uncaught",
                               FALSE, <<>>, FALSE, NoSelection,
                               <<profile_name, selected_region>>)
             /\ UNCHANGED <<credExists, credentials, credCorrupt,
                            cfgExists, config, cfgCorrupt>>

\* the two functions called without the tray icon around them
TrayRefresh == GetAwsProfilesCall /\ UNCHANGED processState

TrayRefreshRaises == GetAwsProfilesRaises /\ UNCHANGED processState

TraySwitchRaises(profile_name) ==
    SwitchProfileRaises(profile_name) /\ UNCHANGED processState

\* a switch that validates its target (it does not)
TraySwitch_Validating(profile_name) ==
    IF HasSection(credentials, profile_name)
    THEN SwitchProfileCall(profile_name) /\ UNCHANGED processState
    ELSE /\ last' = Report("tray", "switchTo", profile_name, "", "UnknownProfile",
                           FALSE, <<>>, FALSE, NoSelection, NoSelection)
         /\ UNCHANGED <<resolverState, processState>>

TraySwitch(profile_name) ==
    SwitchProfileCall(profile_name) /\ UNCHANGED processState

(***************************************************************************)
(* aws_tray_manager.py: the running tray icon.  tray.current_profile and    *)
(* tray.current_region are the nonlocals of create_tray_icon(), tray.icon  *)
(* the profile the icon was last drawn for and tray.menu the profiles of   *)
(* the menu built last.  update_thread() names its nonlocals at line 340,  *)
(* after it has used current_profile at line 324, which CPython rejects    *)
(* when it compiles the file; the thread is modelled with the variables    *)
(* that declaration names.                                                 *)
(***************************************************************************)
\* a menu that shows the favorites only
TrayMenuProfiles_OnlyFavorites(profiles, favorites) ==
    LET listed(fav) == fav.name \in Range(profiles)
    IN  [i \in 1..Len(SelectSeq(favorites, listed)) |->
            SelectSeq(favorites, listed)[i].name]

\* create_menu(): the profile behind each profile item of the menu, top
\* down: the favorites that are in profiles, then the profiles that are
\* not a favorite
TrayMenuProfiles(profiles, favorites) ==
    LET listed(fav) == fav.name \in Range(profiles)
        plain(profile) == \A i \in DOMAIN favorites : favorites[i].name # profile
        starred == SelectSeq(favorites, listed)
    IN  [i \in 1..Len(starred) |-> starred[i].name] \o SelectSeq(profiles, plain)

\* create_tray_icon(): get_aws_profiles(), icon drawn, menu built
TrayStart(got, favorites) ==
    [current_profile |-> got.active[1], current_region |-> got.active[2],
     icon |-> got.active[1], menu |-> TrayMenuProfiles(got.profiles, favorites),
     favorites |-> favorites]

\* on_refresh(): the tuple assignment is not reached when the call raises
OnRefresh ==
    LET got == GetAwsProfiles(credExists, credentials, cfgExists, config, env)
    IN  /\ \/ GetAwsProfilesCall /\ tray' = TrayStart(got, tray.favorites)
           \/ GetAwsProfilesRaises /\ UNCHANGED tray
        /\ UNCHANGED <<poll, add, helpers>>

\* the statements of on_profile_switch(profile_name)
ProfileSwitchHandler(profile_name) ==
    LET selected_region == RegionFor(ReadConfig(cfgExists, config), profile_name)
        switched == [tray EXCEPT !.current_profile = profile_name,
                                 !.current_region = selected_region,
                                 !.icon = profile_name]
    IN  /\ profile_name \in Range(tray.menu)
        /\ \/ /\ SwitchProfileCall(profile_name)
              /\ tray' = [switched EXCEPT
                            !.menu = TrayMenuProfiles(ListProfiles(credentials),
                                                      tray.favorites)]
           \/ /\ SwitchProfileRaises(profile_name)
              /\ tray' = IF CfgUnparsable THEN tray ELSE switched

\* on_profile_switch(profile_name), reached from an item of the menu; the
\* process started by Popen() is not followed
OnProfileSwitch(profile_name) ==
    /\ ProfileSwitchHandler(profile_name)
    /\ UNCHANGED <<poll, add, helpers>>

\* on_profile_switch(profile_name) with the process switch_profile()
\* starts by Popen(batch_path, shell=True): it is not waited for and has
\* not opened set_aws_profile.bat yet
OnProfileSwitchPopen(profile_name) ==
    /\ Len(helpers.running) < MaxHelpers
    /\ ProfileSwitchHandler(profile_name)
    /\ helpers' = IF CfgUnparsable
                  THEN helpers
                  ELSE [helpers EXCEPT
                          !.running = Append(@, [pc |-> 0, script |-> <<>>])]
    /\ UNCHANGED <<poll, add>>

\* the command interpreter of a started helper opens set_aws_profile.bat
\* as it is on disk by now
HelperRead(i) ==
    /\ i \in DOMAIN helpers.running
    /\ helpers.running[i].pc = 0
    /\ bat # <<>>
    /\ helpers' = [helpers EXCEPT !.running[i] = [pc |-> 1, script |-> bat]]
    /\ UNCHANGED <<resolverState, last, tray, poll, add>>

\* a helper runs its next "setx VAR value": one write of the user
\* environment; after its last line the process is over
HelperSetx(i) ==
    /\ i \in DOMAIN helpers.running
    /\ helpers.running[i].pc >= 1
    /\ LET helper == helpers.running[i]
           line == helper.script[helper.pc]
           persisted == [var \in DOMAIN helpers.persisted \cup {line.var} |->
                            IF var = line.var THEN line.val
                            ELSE helpers.persisted[var]]
           others == [j \in 1..(Len(helpers.running) - 1) |->
                         helpers.running[IF j < i THEN j ELSE j + 1]]
       IN  helpers' = IF helper.pc = Len(helper.script)
                      THEN [persisted |-> persisted, running |-> others]
                      ELSE [persisted |-> persisted,
                            running |-> [helpers.running EXCEPT ![i].pc = @ + 1]]
    /\ UNCHANGED <<resolverState, last, tray, poll, add>>

\* a poll thread that an exception of get_aws_profiles() ends
PollRead_Exits ==
    LET got == GetAwsProfiles(credExists, credentials, cfgExists, config, env)
    IN  /\ poll.pc = "sleep"
        /\ IF GetAwsProfilesFails
           THEN /\ last' = Report("poll", "read", "", "", "Uncaught",
                                  FALSE, <<>>, FALSE, NoSelection, NoSelection)
                /\ poll' = [poll EXCEPT !.pc = "exited"]
           ELSE /\ last' = Report("poll", "read", "", "", "ok",
                                  TRUE, got.profiles, TRUE, got.active, NoSelection)
                /\ poll' = [pc |-> "got", new_current |-> got.active[1],
                            new_region |-> got.active[2]]
        /\ UNCHANGED <<resolverState, tray, add, helpers>>

\* update_thread(): the sleep is over and get_aws_profiles() is called;
\* "except: pass" takes the iteration back to the sleep
PollRead ==
    LET got == GetAwsProfiles(credExists, credentials, cfgExists, config, env)
    IN  /\ poll.pc = "sleep"
        /\ IF GetAwsProfilesFails
           THEN /\ last' = Report("poll", "read", "", "", "Ignored",
                                  FALSE, <<>>, FALSE, NoSelection, NoSelection)
                /\ UNCHANGED poll
           ELSE /\ last' = Report("poll", "read", "", "", "ok",
                                  TRUE, got.profiles, TRUE, got.active, NoSelection)
                /\ poll' = [pc |-> "got", new_current |-> got.active[1],
                            new_region |-> got.active[2]]
        /\ UNCHANGED <<resolverState, tray, add, helpers>>

\* an update that goes through switch_profile() (it does not)
PollUpdate_Switching ==
    /\ poll.pc = "got"
    /\ SwitchProfileCall(poll.new_current)
    /\ tray' = [current_profile |-> poll.new_current,
                current_region |-> poll.new_region,
                icon |-> poll.new_current,
                menu |-> TrayMenuProfiles(ListProfiles(credentials), tray.favorites),
                favorites |-> tray.favorites]
    /\ poll' = [pc |-> "sleep", new_current |-> "", new_region |-> ""]
    /\ UNCHANGED <<add, helpers>>

\* update_thread(): "if new_current != current_profile": the icon is
\* redrawn, create_menu() reads the stores again, then the nonlocals are
\* assigned; an exception of create_menu() is swallowed after the icon
\* has been redrawn
PollUpdate ==
    LET got == GetAwsProfiles(credExists, credentials, cfgExists, config, env)
    IN  /\ poll.pc = "got"
        /\ IF poll.new_current = tray.current_profile
           THEN /\ last' = Report("poll", "same", "", "", "ok",
                                  FALSE, <<>>, FALSE, NoSelection, NoSelection)
                /\ UNCHANGED tray
           ELSE IF GetAwsProfilesFails
           THEN /\ last' = Report("poll", "update", "", "", "Ignored",
                                  FALSE, <<>>, FALSE, NoSelection, NoSelection)
                /\ tray' = [tray EXCEPT !.icon = poll.new_current]
           ELSE /\ last' = Report("poll", "update", "", "", "ok",
                                  TRUE, got.profiles, TRUE, got.active, NoSelection)
                /\ tray' = [current_profile |-> poll.new_current,
                            current_region |-> poll.new_region,
                            icon |-> poll.new_current,
                            menu |-> TrayMenuProfiles(got.profiles, tray.favorites),
                            favorites |-> tray.favorites]
        /\ poll' = [pc |-> "sleep", new_current |-> "", new_region |-> ""]
        /\ UNCHANGED <<resolverState, add, helpers>>

(***************************************************************************)
(* Another tool (the AWS CLI, an editor) rewrites one of the two files.    *)
(***************************************************************************)
\* the credentials file is deleted, left unparsable or rewritten
ExternalEditCredentials(exists, corrupt, file) ==
    /\ ~exists => ~corrupt
    /\ (~exists \/ corrupt) => file = <<>>
    /\ <<exists, corrupt, file>> # <<credExists, credCorrupt, credentials>>
    /\ credExists' = exists
    /\ credCorrupt' = corrupt
    /\ credentials' = file
    /\ last' = Report("external", "edit", "", "", "ok",
                      FALSE, <<>>, FALSE, NoSelection, NoSelection)
    /\ UNCHANGED <<cfgExists, config, cfgCorrupt, env, bat>>

\* the config file is deleted, left unparsable or rewritten
ExternalEditConfig(exists, corrupt, file) ==
    /\ ~exists => ~corrupt
    /\ (~exists \/ corrupt) => file = EmptyParser
    /\ <<exists, corrupt, file>> # <<cfgExists, cfgCorrupt, config>>
    /\ cfgExists' = exists
    /\ cfgCorrupt' = corrupt
    /\ config' = file
    /\ last' = Report("external", "edit", "", "", "ok",
                      FALSE, <<>>, FALSE, NoSelection, NoSelection)
    /\ UNCHANGED <<credExists, credentials, credCorrupt, env, bat>>

(***************************************************************************)
(* dev_assistant.py: manage_aws_resources(), choice "7".                    *)
(***************************************************************************)
AutoSwitch(number) ==
    LET profiles == ListProfiles(credentials)
        profile_idx == number - 1
        selected_profile == profiles[profile_idx + 1]
    IN  /\ ~CredsUnparsable
        /\ UNCHANGED <<credCorrupt, cfgCorrupt, processState>>
        /\ IF ~credExists
           THEN /\ last' = Report("auto", "list", "", "", "StoreUnavailable",
                                  FALSE, <<>>, FALSE, NoSelection, NoSelection)
                /\ UNCHANGED <<credExists, credentials, cfgExists, config, env, bat>>
           ELSE IF profiles = <<>>
           THEN /\ last' = Report("auto", "list", "", "", "NoProfiles",
                                  TRUE, profiles, FALSE, NoSelection, NoSelection)
                /\ UNCHANGED <<credExists, credentials, cfgExists, config, env, bat>>
           ELSE IF profile_idx < 0 \/ profile_idx >= Len(profiles)
           THEN /\ last' = Report("auto", "select", "", "", "InvalidNumber",
                                  TRUE, profiles, FALSE, NoSelection, NoSelection)
                /\ UNCHANGED <<credExists, credentials, cfgExists, config, env, bat>>
           ELSE /\ env' = SetEnv(env, "AWS_PROFILE", selected_profile)
                /\ bat' = WriteBatchAuto(selected_profile)
                /\ last' = Report("auto", "switchTo", selected_profile, "", "ok",
                                  TRUE, profiles, FALSE, NoSelection, NoSelection)
                /\ UNCHANGED <<credExists, credentials, cfgExists, config>>

\* config_parser.read(credentials_path) raises inside the try block of
\* manage_aws_resources(): except Exception prints "Error: ..." and the
\* function returns to the menu loop of main()
AutoParseError ==
    /\ CredsUnparsable
    /\ last' = Report("auto", "list", "", "", "Error",
                      FALSE, <<>>, FALSE, NoSelection, NoSelection)
    /\ UNCHANGED <<resolverState, processState>>

(***************************************************************************)
(* devwizard/devwizard.py: aws_helper(), choice "7".                        *)
(***************************************************************************)
\* os.environ["AWS_PROFILE"] = profile, for whatever name was typed
WizardSwitch(profile) ==
    /\ env' = SetEnv(env, "AWS_PROFILE", profile)
    /\ last' = Report("wizard", "switchTo", profile, "", "ok",
                      FALSE, <<>>, FALSE, NoSelection, NoSelection)
    /\ UNCHANGED <<credExists, credentials, credCorrupt,
                   cfgExists, config, cfgCorrupt, bat, processState>>

(***************************************************************************)
(* Initial states: the files and the environment the tools are started in. *)
(***************************************************************************)
\* credentials files with at most MaxProfiles sections; configparser rejects
\* a file that names a section twice, so the names of a parsed file differ
CredFiles ==
    LET orders == UNION {[1..n -> Names] : n \in 0..MaxProfiles}
        unique(o) == \A i, j \in DOMAIN o : i # j => o[i] # o[j]
    IN  {[i \in DOMAIN o |-> [name |-> o[i],
                              aws_access_key_id |-> "AKIAEXAMPLE",
                              aws_secret_access_key |-> "wJalrEXAMPLEKEY"]] :
            o \in {x \in orders : unique(x)}}

\* config files the tools are started with
InitConfigs ==
    UNION {[S -> {NoKey, "eu-west-1"}] :
              S \in SUBSET {"default", ProfileSection("dev")}}

\* the environment the process inherits
InitEnvs ==
    {e \in UNION {[V -> {"dev", "us-west-2", "ap-south-1"}] : V \in SUBSET EnvVars} :
        /\ "AWS_PROFILE" \in DOMAIN e => e["AWS_PROFILE"] = "dev"
        /\ "AWS_REGION" \in DOMAIN e => e["AWS_REGION"] = "us-west-2"
        /\ "AWS_DEFAULT_REGION" \in DOMAIN e =>
               e["AWS_DEFAULT_REGION"] = "ap-south-1"}

\* nothing has been invoked yet
NoReport ==
    [site |-> "none", op |-> "none", arg |-> "", region |-> "",
     status |-> "ok", listed |-> FALSE, profiles |-> <<>>,
     resolved |-> FALSE, active |-> NoSelection,
     selection |-> NoSelection, again |-> FALSE]

Init ==
    /\ credExists \in BOOLEAN
    /\ credentials \in (IF credExists THEN CredFiles ELSE {<<>>})
    /\ cfgExists \in BOOLEAN
    /\ config \in (IF cfgExists THEN InitConfigs ELSE {EmptyParser})
    /\ env \in InitEnvs
    /\ bat = <<>>
    /\ credCorrupt = FALSE
    /\ cfgCorrupt = FALSE
    /\ tray = NoTray
    /\ poll = NoPoll
    /\ add = NoAdd
    /\ helpers = NoHelpers
    /\ last = NoReport

Next ==
    \/ \E create_new \in {"y", "n"} : MenuBootstrap(create_new)
    \/ \E choice \in {"q", "e", "x"} : MenuOption(choice)
    \/ \E new_profile \in Names \cup {""}, access_key \in AccessKeys,
          secret_key \in SecretKeys, typed_region \in {"", "eu-west-1"},
          switch \in {"y", "n"} :
          MenuAddProfile(new_profile, access_key, secret_key, typed_region, switch)
    \/ \E number \in 0..(Len(credentials) + MaxOvershoot) : MenuSwitch(number)
    \/ TrayRefresh
    \/ \E profile_name \in Names : TraySwitch(profile_name)
    \/ \E number \in 0..(Len(credentials) + MaxOvershoot) : AutoSwitch(number)

Spec == Init /\ [][Next]_vars

\* the switch operation of the four sites, on stores nobody edits
NextSwitch ==
    \/ \E number \in 0..(Len(credentials) + MaxOvershoot) : MenuSwitch(number)
    \/ \E profile_name \in Names : TraySwitch(profile_name)
    \/ \E number \in 0..(Len(credentials) + MaxOvershoot) : AutoSwitch(number)
    \/ \E profile \in Names : WizardSwitch(profile)

SpecSwitch == Init /\ [][NextSwitch]_vars

\* one run of the menu CLI after another, nothing else started
NextCli ==
    \/ \E create_new \in {"y", "n"} : MenuBootstrap(create_new)
    \/ \E choice \in {"q", "e", "x"} : MenuOption(choice)
    \/ \E new_profile \in Names \cup {""}, access_key \in AccessKeys,
          secret_key \in SecretKeys, typed_region \in {"", "eu-west-1"},
          switch \in {"y", "n"} :
          MenuAddProfile(new_profile, access_key, secret_key, typed_region, switch)
    \/ \E number \in 0..(Len(credentials) + MaxOvershoot) : MenuSwitch(number)

SpecCli == Init /\ [][NextCli]_vars

\* the tools started on files of which at least one cannot be parsed
InitCorrupt ==
    /\ credExists \in BOOLEAN
    /\ credCorrupt \in (IF credExists THEN BOOLEAN ELSE {FALSE})
    /\ credentials \in (IF credExists /\ ~credCorrupt THEN CredFiles ELSE {<<>>})
    /\ cfgExists \in BOOLEAN
    /\ cfgCorrupt \in (IF cfgExists THEN BOOLEAN ELSE {FALSE})
    /\ config \in (IF cfgExists /\ ~cfgCorrupt THEN InitConfigs ELSE {EmptyParser})
    /\ credCorrupt \/ cfgCorrupt
    /\ env \in InitEnvs
    /\ bat = <<>>
    /\ tray = NoTray
    /\ poll = NoPoll
    /\ add = NoAdd
    /\ helpers = NoHelpers
    /\ last = NoReport

NextCorrupt ==
    \/ \E create_new \in {"y", "n"} : MenuBootstrap(create_new)
    \/ MenuParseError
    \/ TrayRefresh
    \/ TrayRefreshRaises
    \/ \E profile_name \in Names : TraySwitchRaises(profile_name)
    \/ \E number \in 0..(Len(credentials) + MaxOvershoot) : AutoSwitch(number)
    \/ AutoParseError

SpecCorrupt == InitCorrupt /\ [][NextCorrupt]_vars

\* credentials files another tool leaves behind
EditedCredFiles ==
    {f \in CredFiles : Range(Sections(f)) \subseteq {"default", "dev"}}

\* config files another tool leaves behind
EditedConfigs ==
    [{} -> {NoKey}] \cup [{ProfileSection("dev")} -> {NoKey, "eu-west-1"}]

\* the tray icon right after create_tray_icon(), its poll thread asleep
InitTray ==
    /\ credExists \in BOOLEAN
    /\ credCorrupt = FALSE
    /\ credentials \in (IF credExists THEN EditedCredFiles ELSE {<<>>})
    /\ cfgExists \in BOOLEAN
    /\ cfgCorrupt = FALSE
    /\ config \in (IF cfgExists THEN EditedConfigs ELSE {EmptyParser})
    /\ env \in {e \in InitEnvs : DOMAIN e \subseteq {"AWS_PROFILE"}}
    /\ bat = <<>>
    /\ tray = TrayStart(GetAwsProfiles(credExists, credentials,
                                        cfgExists, config, env), <<>>)
    /\ poll = [pc |-> "sleep", new_current |-> "", new_region |-> ""]
    /\ add = NoAdd
    /\ helpers = NoHelpers
    /\ last = NoReport

NextTray ==
    \/ OnRefresh
    \/ \E profile_name \in Names : OnProfileSwitch(profile_name)
    \/ PollRead
    \/ PollUpdate
    \/ \E exists \in BOOLEAN, corrupt \in BOOLEAN, file \in EditedCredFiles :
          ExternalEditCredentials(exists, corrupt, file) /\ UNCHANGED processState
    \/ \E exists \in BOOLEAN, corrupt \in BOOLEAN, file \in EditedConfigs :
          ExternalEditConfig(exists, corrupt, file) /\ UNCHANGED processState

SpecTray == InitTray /\ [][NextTray]_vars

\* the poll thread is a thread of its own ("threading.Thread(...).start()"):
\* its sleep of 30 s ends and the statement after get_aws_profiles() is
\* reached whatever the menu handlers and the other tools do
SpecTrayLive ==
    InitTray /\ [][NextTray]_vars /\ WF_vars(PollRead) /\ WF_vars(PollUpdate)

\* the tray alone on stores nobody else edits: the menu handlers run on
\* the icon's thread, the poll on its own
NextRace ==
    \/ OnRefresh
    \/ \E profile_name \in Names : OnProfileSwitch(profile_name)
    \/ PollRead
    \/ PollUpdate

SpecRace == InitTray /\ [][NextRace]_vars

\* the tray's switches together with the helper processes they start
NextHelper ==
    \/ \E profile_name \in Names : OnProfileSwitchPopen(profile_name)
    \/ \E i \in 1..MaxHelpers : HelperRead(i)
    \/ \E i \in 1..MaxHelpers : HelperSetx(i)

SpecHelper == InitTray /\ [][NextHelper]_vars

\* credentials files the menu CLI is run on
MenuCredFiles ==
    {f \in EditedCredFiles : f # <<>> => f[1].name = "default"}

\* the menu CLI about to be started, another tool at work on the files
InitMenu ==
    /\ credExists = TRUE
    /\ credCorrupt = FALSE
    /\ credentials \in MenuCredFiles
    /\ cfgExists \in BOOLEAN
    /\ cfgCorrupt = FALSE
    /\ config \in (IF cfgExists THEN EditedConfigs ELSE {EmptyParser})
    /\ env \in {e \in InitEnvs : DOMAIN e = {}}
    /\ bat = <<>>
    /\ tray = NoTray
    /\ poll = NoPoll
    /\ add = NoAdd
    /\ helpers = NoHelpers
    /\ last = NoReport

NextMenu ==
    \/ MenuRead
    \/ \E choice \in {"q"} : MenuChooseOption(choice)
    \/ \E number \in 0..(Len(add.credentials) + MaxOvershoot) :
          MenuChooseSwitch(number)
    \/ \E new_profile \in {"", "dev"}, typed_region \in {"", "eu-west-1"} :
          AddCheck(new_profile, typed_region)
    \/ AddWriteCredentials
    \/ AddStop
    \/ AddWriteConfig
    \/ \E switch \in {"y", "n"} : AddSwitch(switch)
    \/ \E file \in MenuCredFiles :
          ExternalEditCredentials(TRUE, FALSE, file) /\ UNCHANGED processState
    \/ \E exists \in BOOLEAN, file \in EditedConfigs \cup {EmptyParser} :
          ExternalEditConfig(exists, FALSE, file) /\ UNCHANGED processState

SpecMenu == InitMenu /\ [][NextMenu]_vars

\* aws_profiles.favorites of config.json: entries {name, color, region}
\* with different names
FavoriteSets ==
    LET orders == UNION {[1..n -> Names] : n \in 0..MaxFavorites}
        unique(o) == \A i, j \in DOMAIN o : i # j => o[i] # o[j]
    IN  {[i \in DOMAIN o |-> [name |-> o[i], color |-> "red",
                              region |-> "ap-south-1"]] :
            o \in {x \in orders : unique(x)}}

\* the tray icon and the menu CLI run with some favorites setting
InitFav ==
    /\ credExists \in BOOLEAN
    /\ credCorrupt = FALSE
    /\ credentials \in (IF credExists THEN CredFiles ELSE {<<>>})
    /\ cfgExists \in BOOLEAN
    /\ cfgCorrupt = FALSE
    /\ config \in (IF cfgExists THEN InitConfigs ELSE {EmptyParser})
    /\ env \in {e \in InitEnvs : DOMAIN e \subseteq {"AWS_PROFILE"}}
    /\ bat = <<>>
    /\ \E favorites \in FavoriteSets :
          tray = TrayStart(GetAwsProfiles(credExists, credentials,
                                          cfgExists, config, env), favorites)
    /\ poll = NoPoll
    /\ add = NoAdd
    /\ helpers = NoHelpers
    /\ last = NoReport

NextFav ==
    \/ OnRefresh
    \/ \E profile_name \in Names : OnProfileSwitch(profile_name)
    \/ \E choice \in {"q", "e"} : MenuOption(choice)
    \/ \E number \in 0..(Len(credentials) + MaxOvershoot) : MenuSwitch(number)

SpecFav == InitFav /\ [][NextFav]_vars

(***************************************************************************)
(* Properties.                                                             *)
(***************************************************************************)
\* resolveRegionFor(profile) on the config store as it is now
ResolveRegionFor(profile) == RegionFor(ReadConfig(cfgExists, config), profile)

NotDefault(name) == name # "default"

\* the last report's listing and active selection were computed from the
\* stores and the environment as they are now
ReportIsCurrent ==
    /\ last.site # "none"
    /\ ~(last.site = "menu" /\ last.op = "switchTo")
    /\ ~(last.op = "addProfile" /\ last.status = "ok")

\* C1: whenever the listed credentials store has a default section, the
\* listing starts with default and the other names keep their file order.
C1_DefaultListedFirst ==
    (last.listed /\ ReportIsCurrent /\ "default" \in Range(Sections(credentials)))
        => /\ last.profiles # <<>>
           /\ last.profiles[1] = "default"
           /\ SelectSeq(last.profiles, NotDefault)
                  = SelectSeq(Sections(credentials), NotDefault)

\* C2: right after switchTo(p), resolveActive() at the same call site returns
\* (p, resolveRegionFor(p)), whatever the environment was before the switch.
C2_SwitchThenResolve ==
    /\ (last.op = "switchTo" /\ last.site = "tray"
            /\ last.arg \in Range(Sections(credentials)))
           => GetAwsProfiles(credExists, credentials, cfgExists, config, env).active
                  = <<last.arg, ResolveRegionFor(last.arg)>>
    /\ (last.op = "switchTo" /\ last.site = "menu")
           => MenuActive(env, ReadConfig(cfgExists, config))
                  = <<last.arg, ResolveRegionFor(last.arg)>>

\* C3: with neither AWS_REGION nor AWS_DEFAULT_REGION set, resolveActive()
\* returns AWS_PROFILE (or default) and resolveRegionFor of that profile.
C3_ResolveWithoutRegionVars ==
    (/\ last.resolved /\ ReportIsCurrent
     /\ "AWS_REGION" \notin DOMAIN env
     /\ "AWS_DEFAULT_REGION" \notin DOMAIN env)
        => LET profile == IF "AWS_PROFILE" \in DOMAIN env
                          THEN env["AWS_PROFILE"] ELSE "default"
           IN  last.active = <<profile, ResolveRegionFor(profile)>>

\* C4: after a successful addProfile(name, key, secret, region) the listing
\* contains name and resolveRegionFor(name) is region.
C4_AddThenListAndRegion ==
    (last.op = "addProfile" /\ last.status = "ok")
        => /\ last.arg \in Range(ListProfiles(credentials))
           /\ ResolveRegionFor(last.arg) = last.region

\* C5: addProfile with a name the credentials store already has is rejected
\* as DuplicateProfile and changes neither store, nor the environment, nor
\* the helper.
C5_DuplicateRejected ==
    [][(last'.op = "addProfile" /\ last'.arg \in Range(Sections(credentials)))
          => /\ last'.status = "DuplicateProfile"
             /\ UNCHANGED <<credExists, credentials, cfgExists, config, env, bat>>
      ]_vars

C5_Witness ==
    /\ last.op = "addProfile"
    /\ last.status = "DuplicateProfile"
    /\ last.arg \in Range(Sections(credentials))

\* C6: at every call site a completed switchTo(p) leaves AWS_PROFILE = p and
\* AWS_DEFAULT_REGION = resolveRegionFor(p) in the environment and the same
\* pair in the setx lines of the helper.
C6_SwitchSetsPair ==
    (last.op = "switchTo")
        => /\ "AWS_PROFILE" \in DOMAIN env
           /\ env["AWS_PROFILE"] = last.arg
           /\ "AWS_DEFAULT_REGION" \in DOMAIN env
           /\ env["AWS_DEFAULT_REGION"] = ResolveRegionFor(last.arg)
           /\ {bat[i] : i \in DOMAIN bat}
                  = {[var |-> "AWS_PROFILE", val |-> last.arg],
                     [var |-> "AWS_DEFAULT_REGION",
                      val |-> ResolveRegionFor(last.arg)]}

\* C7: a second switchTo(p) right after a first one at the same call site
\* completes, returns the same selection and leaves the environment and the
\* helper exactly as the first one left them.
C7_SwitchIdempotent ==
    [][(/\ last.op = "switchTo" /\ last'.op = "switchTo"
        /\ last'.site = last.site /\ last'.arg = last.arg)
          => /\ last'.status = "ok"
             /\ last'.selection = last.selection
             /\ env' = env
             /\ bat' = bat
      ]_vars

C7_Witness == last.op = "switchTo" /\ last.again /\ last.site = "tray"

\* C8: with no credentials file, every call site reports StoreUnavailable and
\* none hands out a listing.
C8_MissingStoreReported ==
    (last.site # "none" /\ ~credExists)
        => (last.status = "StoreUnavailable" /\ ~last.listed)

\* C9: resolveActive() returns AWS_PROFILE or else default, and the first
\* of AWS_REGION, AWS_DEFAULT_REGION, the region the config store declares
\* for the current profile, the configured default region.
C9_Precedence ==
    (last.resolved /\ ReportIsCurrent)
        => LET profile == IF "AWS_PROFILE" \in DOMAIN env
                          THEN env["AWS_PROFILE"] ELSE "default"
               region == IF "AWS_REGION" \in DOMAIN env
                         THEN env["AWS_REGION"]
                         ELSE IF "AWS_DEFAULT_REGION" \in DOMAIN env
                         THEN env["AWS_DEFAULT_REGION"]
                         ELSE ResolveRegionFor(profile)
           IN  last.active = <<profile, region>>

\* C10: the active selection does not depend on the credentials store: any
\* other credentials file, present or missing, with the same environment
\* and config store gives the selection just reported.
C10_IndependentOfCredentials ==
    (last.resolved /\ ReportIsCurrent /\ last.site = "tray")
        => \A present \in BOOLEAN :
             \A file \in (IF present THEN CredFiles ELSE {<<>>}) :
               GetAwsProfiles(present, file, cfgExists, config, env).active
                   = last.active

\* the region the config file declares for a profile as it is now, read
\* off the file: section default or profile <name>, option region
DeclaredRegion(profile) ==
    LET section == IF profile = "default" THEN "default" ELSE "profile " \o profile
    IN  IF cfgExists /\ section \in DOMAIN config /\ config[section] # NoKey
        THEN config[section]
        ELSE default_region

\* C11: resolveRegionFor (as the switch of the menu CLI and of the tray
\* computes it) completes and returns the declared region, and the
\* configured default region when the config file, the section or the
\* region option is missing.
C11_RegionForTolerant ==
    (last.op = "switchTo" /\ last.site \in {"menu", "tray"})
        => /\ last.status = "ok"
           /\ last.selection = <<last.arg, DeclaredRegion(last.arg)>>

C11_Witness ==
    /\ last.op = "switchTo" /\ last.site = "tray"
    /\ cfgExists
    /\ SectionName(last.arg) \in DOMAIN config
    /\ config[SectionName(last.arg)] = NoKey
    /\ last.selection = <<last.arg, default_region>>

\* C14: a switch of the tray or of the devwizard helper to a name the
\* credentials store does not have completes, sets AWS_PROFILE to that name
\* and (tray) returns a region; UnknownProfile is never reported.
C14_SwitchUnvalidated ==
    (/\ last.op = "switchTo" /\ last.site \in {"tray", "wizard"}
     /\ last.arg \notin Range(Sections(credentials)))
        => /\ last.status = "ok"
           /\ "AWS_PROFILE" \in DOMAIN env
           /\ env["AWS_PROFILE"] = last.arg
           /\ last.site = "tray"
                  => last.selection = <<last.arg, DeclaredRegion(last.arg)>>

C14_Witness ==
    /\ last.op = "switchTo" /\ last.site = "tray" /\ last.status = "ok"
    /\ credExists
    /\ last.arg \notin Range(Sections(credentials))
    /\ env["AWS_PROFILE"] = last.arg

NoRepeats(seq) == \A i, j \in DOMAIN seq : i # j => seq[i] # seq[j]

\* C18: after any sequence of addProfile and switchTo calls no name occurs
\* twice in the credentials store or in a listing.
C18_NamesUnique ==
    /\ NoRepeats(Sections(credentials))
    /\ last.listed => NoRepeats(last.profiles)

C18_Witness ==
    /\ last.op = "addProfile" /\ last.status = "ok"
    /\ Len(credentials) >= 2

\* C12: resolveActive() never fails: at the menu CLI and the tray every
\* invocation that finds a credentials file, parsable or not, resolves the
\* active selection, and with no AWS variable set and no region declared
\* that selection is (default, configured default region).
C12_ResolveActiveNeverFails ==
    /\ (last.site \in {"menu", "tray"} /\ last.op # "bootstrap" /\ credExists)
           => last.resolved
    /\ (/\ last.resolved
        /\ DOMAIN env = {}
        /\ DeclaredRegion("default") = default_region
        /\ ~CfgHasRegion(ReadConfig(cfgExists, config), ProfileSection("default")))
           => last.active = <<"default", default_region>>

\* C17: no failure of a resolver operation ends the host process: at the
\* menu CLI and the automation CLI no exception leaves the operation
\* uncaught.
C17_NoFatalFailure ==
    last.site \in {"menu", "auto"} => last.status # "Uncaught"

\* C15: no step of the tray's poll thread changes AWS_PROFILE, AWS_REGION
\* or AWS_DEFAULT_REGION, writes the helper, or writes the credentials or
\* the config store.
C15_PollReadOnly ==
    [][(poll' # poll \/ last'.site = "poll") => UNCHANGED resolverState]_vars

C15_Witness ==
    /\ last.site = "poll" /\ last.op = "update" /\ last.status = "ok"
    /\ tray.current_profile = CurrentProfile(env)
    /\ tray.icon = tray.current_profile

\* C16: an operation of the tray or of its poll thread that reads an
\* unparsable credentials or config file hands the failure to its caller;
\* it is never swallowed.
C16_StoreCorruptSurfaced ==
    (GetAwsProfilesFails /\ last.site \in {"tray", "poll"} /\ last.op # "same")
        => last.status \in {"StoreCorrupt", "Uncaught"}

\* addProfile has written the credentials file and not yet the config file
BetweenWrites ==
    /\ last.site = "menu" /\ last.op = "addProfile"
    /\ last.status \in {"CredentialsWritten", "Stopped"}

\* C13 as stated: when addProfile stops after the credentials write and
\* before the config write, the new profile is listed, has no region entry
\* and resolveRegionFor of it returns the configured default region.
C13_StopLeavesDefaultRegion ==
    BetweenWrites
        => /\ last.arg \in Range(ListProfiles(credentials))
           /\ ~CfgHasRegion(ReadConfig(cfgExists, config), ProfileSection(last.arg))
           /\ ResolveRegionFor(last.arg) = default_region

\* C13, amended: addProfile writes the credentials store before the config
\* store, and the credentials write leaves the config store as it was: the
\* new profile is listed and resolveRegionFor of it returns the region the
\* config store already declared for that name, or the configured default
\* region when it declared none; stopping there changes nothing further.
C13_StopLeavesConfigUntouched ==
    [][/\ (last'.site = "menu" /\ last'.op = "addProfile"
               /\ last'.status = "CredentialsWritten" /\ add.pc = "checked")
           => /\ UNCHANGED <<cfgExists, config, cfgCorrupt>>
              /\ last'.arg \in Range(ListProfiles(credentials'))
              /\ RegionFor(ReadConfig(cfgExists', config'), last'.arg)
                     = DeclaredRegion(last'.arg)
       /\ (last'.site = "menu" /\ last'.status = "Stopped"
               /\ add.pc = "credsWritten")
           => UNCHANGED resolverState
       /\ (last'.site = "menu" /\ <<cfgExists, config>>' # <<cfgExists, config>>)
           => add.pc = "credsWritten"
      ]_vars

C13_Witness ==
    /\ BetweenWrites /\ last.status = "Stopped"
    /\ last.arg \in Range(ListProfiles(credentials))
    /\ ~CfgHasSection(ReadConfig(cfgExists, config), ProfileSection(last.arg))
    /\ ResolveRegionFor(last.arg) = default_region

\* C19: the store addProfile writes is the snapshot it read plus the new
\* profile, whatever another tool wrote to the file in between; that
\* change is lost, nothing is merged and the write does not fail.
C19_LastWriterWins ==
    /\ (last.site = "menu" /\ last.op = "addProfile"
            /\ last.status = "CredentialsWritten")
           => /\ credExists /\ ~credCorrupt
              /\ Len(credentials) = Len(add.credentials) + 1
              /\ SubSeq(credentials, 1, Len(add.credentials)) = add.credentials
              /\ credentials[Len(credentials)].name = last.arg
    /\ (last.site = "menu" /\ last.op = "addProfile" /\ last.status = "ok")
           => /\ cfgExists /\ ~cfgCorrupt
              /\ DOMAIN config
                     = DOMAIN add.config_parser \cup {"profile " \o last.arg}
              /\ \A section \in DOMAIN add.config_parser :
                     section # "profile " \o last.arg
                         => config[section] = add.config_parser[section]
              /\ config["profile " \o last.arg] = last.region

C19_Witness ==
    /\ last.site = "menu" /\ last.op = "addProfile"
    /\ last.status = "CredentialsWritten"
    /\ add.lost
    /\ SubSeq(credentials, 1, Len(add.credentials)) = add.credentials

\* C20 as stated: the stores are not cached across resolution calls: the
\* listing and the region a switch of the menu CLI reports are those of
\* the files as they are when the choice is made.
C20_ReadFresh ==
    (last.site = "menu" /\ last.op = "switchTo" /\ last.listed)
        => /\ last.selection = <<last.arg, DeclaredRegion(last.arg)>>
           /\ last.profiles = ListProfiles(credentials)

\* C20, amended: the stores are not cached across runs: every run of the
\* menu CLI reads both files when it starts, so its listing and active
\* selection are those of the files at that time, whatever an earlier run
\* had read; within the run a switch works on the files as read at its
\* start, not as they are when the choice is typed.
C20_ReadFreshPerRun ==
    [][/\ (add.pc = "idle" /\ add'.pc = "prompt")
           => /\ last'.profiles = ListProfiles(credentials)
              /\ last'.active = MenuActive(env, ReadConfig(cfgExists, config))
              /\ add'.credentials = credentials
              /\ add'.config_parser = ReadConfig(cfgExists, config)
       /\ (add.pc = "prompt" /\ last'.site = "menu" /\ last'.op = "switchTo")
           => /\ last'.profiles = ListProfiles(add.credentials)
              /\ last'.selection
                     = <<last'.arg, RegionFor(add.config_parser, last'.arg)>>
      ]_vars

C20_Witness ==
    /\ last.site = "menu" /\ last.op = "list" /\ add.pc = "prompt"
    /\ add.seen # <<>>
    /\ add.seen # last.profiles
    /\ last.profiles = ListProfiles(credentials)

\* C21: the favorites setting has no effect on resolution: with any
\* favorites the tray menu offers exactly the listed profiles, the listing
\* and the active selection are those of the stores and the environment,
\* and a switch leaves the profile and its declared region in the
\* environment and in the helper.
C21_FavoritesNoEffect ==
    LET got == GetAwsProfiles(credExists, credentials, cfgExists, config, env)
    IN  /\ \A favorites \in FavoriteSets :
               Range(TrayMenuProfiles(got.profiles, favorites)) = Range(got.profiles)
        /\ Range(tray.menu) = Range(got.profiles)
        /\ (last.listed /\ last.site = "tray") => last.profiles = got.profiles
        /\ (last.listed /\ last.site = "menu")
               => last.profiles = ListProfiles(credentials)
        /\ (last.resolved /\ last.site = "tray") => last.active = got.active
        /\ (last.op = "switchTo")
               => /\ env["AWS_PROFILE"] = last.arg
                  /\ env["AWS_DEFAULT_REGION"] = DeclaredRegion(last.arg)
                  /\ bat = << [var |-> "AWS_PROFILE", val |-> last.arg],
                              [var |-> "AWS_DEFAULT_REGION",
                               val |-> DeclaredRegion(last.arg)] >>

C21_Witness ==
    /\ last.op = "switchTo" /\ last.site = "tray"
    /\ tray.favorites # <<>>
    /\ tray.favorites[1].name = last.arg
    /\ tray.menu # ListProfiles(credentials)
    /\ tray.menu[1] = last.arg
    /\ env["AWS_DEFAULT_REGION"] # tray.favorites[1].region

\* every key value the credentials store holds or the user may type
KeyValues ==
    AccessKeys \cup SecretKeys
        \cup {credentials[i].aws_access_key_id : i \in DOMAIN credentials}
        \cup {credentials[i].aws_secret_access_key : i \in DOMAIN credentials}

\* C22: no access key id and no secret access key is a value of an
\* environment variable, of a line of the helper, of the config store or
\* of what an invocation reports.
C22_KeysStayInCredentials ==
    /\ \A var \in DOMAIN env : env[var] \notin KeyValues
    /\ \A i \in DOMAIN bat : bat[i].val \notin KeyValues /\ bat[i].var \notin KeyValues
    /\ \A section \in DOMAIN config :
           config[section] \notin KeyValues /\ section \notin KeyValues
    /\ last.arg \notin KeyValues /\ last.region \notin KeyValues
    /\ last.status \notin KeyValues
    /\ \A i \in DOMAIN last.profiles : last.profiles[i] \notin KeyValues
    /\ \A i \in DOMAIN last.active : last.active[i] \notin KeyValues
    /\ \A i \in DOMAIN last.selection : last.selection[i] \notin KeyValues

C22_Witness ==
    /\ last.op = "addProfile" /\ last.status = "ok"
    /\ last.selection = <<last.arg, last.region>>
    /\ \E i \in DOMAIN credentials :
           /\ credentials[i].name = last.arg
           /\ credentials[i].aws_secret_access_key \in SecretKeys
    /\ config[ProfileSection(last.arg)] = last.region
    /\ bat # <<>>

\* C27: in the menu CLI, q, an unimplemented option, any other text, 0, a
\* number beyond the listing and "a" with an empty name change neither the
\* stores nor the environment nor the helper; a number n of the listing
\* switches to the n-th listed profile.
C27_OnlyValidChoicesAct ==
    [][/\ (last'.site = "menu" /\ last'.op = "option")
           => \A choice \in {"q", "e", "x"} :
                  MenuOption(choice) => UNCHANGED resolverState
       /\ (last'.site = "menu" /\ last'.op \in {"select", "switchTo"})
           => \A number \in 0..(Len(credentials) + MaxOvershoot) :
                  MenuSwitch(number)
                      => IF 1 <= number /\ number <= Len(ListProfiles(credentials))
                         THEN /\ last'.op = "switchTo"
                              /\ last'.arg = ListProfiles(credentials)[number]
                              /\ env'["AWS_PROFILE"] = ListProfiles(credentials)[number]
                              /\ bat'[1].val = ListProfiles(credentials)[number]
                              /\ UNCHANGED <<credExists, credentials, cfgExists, config>>
                         ELSE UNCHANGED resolverState
       /\ (last'.site = "menu" /\ last'.op = "addProfile" /\ last'.arg = "")
           => UNCHANGED resolverState
      ]_vars

C27_Witness ==
    /\ last.site = "menu" /\ last.op = "switchTo"
    /\ Len(ListProfiles(credentials)) >= 2
    /\ last.arg = ListProfiles(credentials)[2]
    /\ env["AWS_PROFILE"] = last.arg

\* C28: a switch leaves the credentials store, the config store and
\* AWS_REGION as they were; of the environment it sets AWS_PROFILE and
\* AWS_DEFAULT_REGION only.
C28_SwitchFrame ==
    [][(last'.op = "switchTo" /\ last' # last)
          => /\ UNCHANGED <<credExists, credentials, credCorrupt,
                            cfgExists, config, cfgCorrupt>>
             /\ ("AWS_REGION" \in DOMAIN env') = ("AWS_REGION" \in DOMAIN env)
             /\ "AWS_REGION" \in DOMAIN env => env'["AWS_REGION"] = env["AWS_REGION"]
             /\ DOMAIN env' \subseteq
                    DOMAIN env \cup {"AWS_PROFILE", "AWS_DEFAULT_REGION"}
      ]_vars

C28_Witness ==
    /\ last.op = "switchTo" /\ last.site = "tray"
    /\ "AWS_REGION" \in DOMAIN env
    /\ env["AWS_REGION"] = "us-west-2"
    /\ env["AWS_DEFAULT_REGION"] = "eu-west-1"

\* C29: the menu CLI, the tray and the automation CLI are equivalent: each
\* lists the profiles of the credentials store in the same order, and a
\* switch at any of them leaves the pair the tray's switch_profile() leaves
\* in the environment and in the helper.
C29_SitesEquivalent ==
    /\ (last.listed /\ last.site \in {"menu", "tray", "auto"} /\ ReportIsCurrent)
           => last.profiles = ListProfiles(credentials)
    /\ (last.op = "switchTo" /\ last.site \in {"menu", "tray", "auto"})
           => /\ "AWS_PROFILE" \in DOMAIN env
              /\ env["AWS_PROFILE"] = last.arg
              /\ "AWS_DEFAULT_REGION" \in DOMAIN env
              /\ env["AWS_DEFAULT_REGION"]
                     = RegionFor(ReadConfig(cfgExists, config), last.arg)
              /\ bat = WriteBatch(last.arg,
                                  RegionFor(ReadConfig(cfgExists, config), last.arg))

\* C30: with the credentials file missing the menu CLI offers to create
\* it: on "y" the file holds the single section default with placeholder
\* keys and is listed as [default], on any other answer no file is made;
\* either way the environment, the helper and the config store stay.
C30_Bootstrap ==
    [][/\ MenuBootstrap("y")
           => /\ credExists' /\ ~credCorrupt'
              /\ Len(credentials') = 1
              /\ credentials'[1] = [name |-> "default",
                                    aws_access_key_id |-> "YOUR_ACCESS_KEY",
                                    aws_secret_access_key |-> "YOUR_SECRET_KEY"]
              /\ ListProfiles(credentials') = <<"default">>
              /\ UNCHANGED <<cfgExists, config, cfgCorrupt, env, bat>>
       /\ MenuBootstrap("n") => UNCHANGED resolverState
       /\ (last'.op = "bootstrap" /\ last' # last) => ~credExists
      ]_vars

C30_Witness ==
    /\ last.site = "menu" /\ last.op = "bootstrap"
    /\ credExists
    /\ ListProfiles(credentials) = <<"default">>

\* C23: the poll thread is asleep or between its read and its comparison,
\* never ended; asleep, its next read can always be taken, also with an
\* unparsable file; an iteration that has read comes back to the sleep.
C23_PollForever ==
    /\ [](poll.pc \in {"sleep", "got"})
    /\ [](poll.pc = "sleep" => ENABLED PollRead)
    /\ (poll.pc = "got") ~> (poll.pc = "sleep")

C23_Witness ==
    /\ last.site = "poll" /\ last.status = "Ignored"
    /\ poll.pc = "sleep"
    /\ credCorrupt \/ cfgCorrupt

\* C24: a poll iteration that ends while the stores and the environment
\* still resolve to the pair it has read leaves that pair presented, the
\* region included.
C24_PollRefreshes ==
    [][(/\ poll.pc = "got" /\ poll'.pc = "sleep"
        /\ ~GetAwsProfilesFails
        /\ GetAwsProfiles(credExists, credentials, cfgExists, config, env).active
               = <<poll.new_current, poll.new_region>>
        /\ UNCHANGED resolverState)
          => <<tray'.current_profile, tray'.current_region>>
                 = <<poll.new_current, poll.new_region>>
      ]_vars

\* C25: with no poll iteration in flight and the credentials file in
\* place, the presented profile and the icon are the AWS_PROFILE of the
\* process, whatever the interleaving of the poll with the menu handlers.
C25_PresentedIsEnv ==
    (poll.pc = "sleep" /\ credExists /\ "AWS_PROFILE" \in DOMAIN env)
        => /\ tray.current_profile = env["AWS_PROFILE"]
           /\ tray.icon = env["AWS_PROFILE"]

\* C26: once every started helper process is over, the user environment
\* persisted by setx holds the pair of the last switch.
C26_PersistedIsLast ==
    (last.op = "switchTo" /\ last.status = "ok" /\ helpers.running = <<>>)
        => /\ DOMAIN helpers.persisted = {"AWS_PROFILE", "AWS_DEFAULT_REGION"}
           /\ helpers.persisted["AWS_PROFILE"] = last.selection[1]
           /\ helpers.persisted["AWS_DEFAULT_REGION"] = last.selection[2]

====
